---- MODULE Spec2Model ----
(***************************************************************************)
(* Model of procesar_hoja_compleja (src/pages/dashboard_frutales.py), the  *)
(* scanner that turns one sheet of the cost report into a table of         *)
(* (Mes, Semana, Actividad, Costo_USD, Categoria) records.                 *)
(*                                                                         *)
(* A sheet is a sequence of rows of equal width; a cell is blank (NaN), a  *)
(* whole number, or a text.  Texts are TLA+ strings and the Python string  *)
(* operations the scanner uses (str, lower, strip, split, in, float) are   *)
(* computed character by character.                                        *)
(***************************************************************************)
EXTENDS Integers, Sequences, FiniteSets, TLC

(***************************************************************************)
(* Python string operations                                                *)
(***************************************************************************)

\* s[i] as a one-character string
Char(s, i) == SubSeq(s, i, i)

\* `p in s`
Contains(s, p) ==
    \E i \in 1..(Len(s) - Len(p) + 1) : SubSeq(s, i, i + Len(p) - 1) = p

UpperChars == "ABCDEFGHIJKLMNOPQRSTUVWXYZÁÉÍÓÚÑ"
LowerChars == "abcdefghijklmnopqrstuvwxyzáéíóúñ"

LowerChar(c) ==
    IF \E i \in 1..Len(UpperChars) : Char(UpperChars, i) = c
    THEN LET i == CHOOSE j \in 1..Len(UpperChars) : Char(UpperChars, j) = c
         IN  Char(LowerChars, i)
    ELSE c

RECURSIVE Lower(_)
\* s.lower()
Lower(s) ==
    IF s = "" THEN "" ELSE LowerChar(Char(s, 1)) \o Lower(SubSeq(s, 2, Len(s)))

\* s.strip(): the blank is the only whitespace of the model's alphabet
Strip(s) ==
    IF \A i \in 1..Len(s) : Char(s, i) = " "
    THEN ""
    ELSE LET a == CHOOSE i \in 1..Len(s) :
                      Char(s, i) # " " /\ \A j \in 1..(i - 1) : Char(s, j) = " "
             b == CHOOSE i \in 1..Len(s) :
                      Char(s, i) # " " /\ \A j \in (i + 1)..Len(s) : Char(s, j) = " "
         IN  SubSeq(s, a, b)

\* s.split("-")[1] for a text that holds a dash: what lies between the first
\* dash and the second one (or the end of the text)
SplitDashSecond(s) ==
    LET d1   == CHOOSE i \in 1..Len(s) :
                    Char(s, i) = "-" /\ \A j \in 1..(i - 1) : Char(s, j) # "-"
        rest == SubSeq(s, d1 + 1, Len(s))
    IN  IF \E i \in 1..Len(rest) : Char(rest, i) = "-"
        THEN LET d2 == CHOOSE i \in 1..Len(rest) :
                           Char(rest, i) = "-" /\ \A j \in 1..(i - 1) : Char(rest, j) # "-"
             IN  SubSeq(rest, 1, d2 - 1)
        ELSE rest

Digits == "0123456789"

IsDigit(c) == \E i \in 1..10 : Char(Digits, i) = c

DigitVal(c) == (CHOOSE i \in 1..10 : Char(Digits, i) = c) - 1

RECURSIVE NatStr(_)
\* str(n) of a natural number
NatStr(n) ==
    IF n < 10 THEN Char(Digits, n + 1)
    ELSE NatStr(n \div 10) \o Char(Digits, (n % 10) + 1)

\* str(n) of a whole number
IntStr(n) == IF n < 0 THEN "-" \o NatStr(0 - n) ELSE NatStr(n)

RECURSIVE DigitsVal(_)
\* the number a text of digits writes
DigitsVal(s) ==
    IF s = "" THEN 0
    ELSE 10 * DigitsVal(SubSeq(s, 1, Len(s) - 1)) + DigitVal(Char(s, Len(s)))

AllDigits(s) == \A i \in 1..Len(s) : IsDigit(Char(s, i))

RECURSIVE Pow10(_)
Pow10(k) == IF k = 0 THEN 1 ELSE 10 * Pow10(k - 1)

(***************************************************************************)
(* Floats.  A float is nan, an infinity, or the decimal m / 10^e, kept     *)
(* normalised (e = 0 or m not a multiple of 10) so that equal numbers are  *)
(* equal records.                                                          *)
(***************************************************************************)
RECURSIVE Normal(_, _)
Normal(m, e) ==
    IF e > 0 /\ m % 10 = 0 THEN Normal(m \div 10, e - 1)
    ELSE [kind |-> "fin", m |-> m, e |-> e]

FloatNaN == [kind |-> "nan", m |-> 0, e |-> 0]
FloatInf(sign) == [kind |-> "inf", m |-> sign, e |-> 0]
NoFloat == [kind |-> "error", m |-> 0, e |-> 0]

\* float(s) of an unsigned text: digits with an optional fraction, or one of
\* the special literals
UnsignedFloat(s, sign) ==
    LET low == Lower(s)
    IN  IF low = "nan" THEN FloatNaN
        ELSE IF low = "inf" \/ low = "infinity" THEN FloatInf(sign)
        ELSE IF \E i \in 1..Len(s) : Char(s, i) = "."
        THEN LET d    == CHOOSE i \in 1..Len(s) : Char(s, i) = "."
                 ip   == SubSeq(s, 1, d - 1)
                 fp   == SubSeq(s, d + 1, Len(s))
             IN  IF AllDigits(ip) /\ AllDigits(fp) /\ Len(ip) + Len(fp) > 0
                 THEN Normal(sign * (DigitsVal(ip) * Pow10(Len(fp)) + DigitsVal(fp)),
                             Len(fp))
                 ELSE NoFloat
        ELSE IF s # "" /\ AllDigits(s) THEN Normal(sign * DigitsVal(s), 0)
        ELSE NoFloat

\* float(s) of a text: surrounding blanks and one sign are accepted; NoFloat
\* stands for the ValueError
FloatOfText(s) ==
    LET t == Strip(s)
    IN  IF t = "" THEN NoFloat
        ELSE IF Char(t, 1) = "-" THEN UnsignedFloat(SubSeq(t, 2, Len(t)), -1)
        ELSE IF Char(t, 1) = "+" THEN UnsignedFloat(SubSeq(t, 2, Len(t)), 1)
        ELSE UnsignedFloat(t, 1)

(***************************************************************************)
(* Cells                                                                   *)
(***************************************************************************)
NaN == [k |-> "nan", v |-> 0, s |-> ""]
Num(n) == [k |-> "num", v |-> n, s |-> ""]
Txt(t) == [k |-> "str", v |-> 0, s |-> t]

\* pd.isna(x)
isna(x) == x.k = "nan"

\* str(x).  A number cell is a whole number, written by its digits; the scan
\* only looks for words in the text of a number, so the form pandas gives it
\* (1 or 1.0) decides nothing.
Str(x) ==
    CASE x.k = "nan" -> "nan"
      [] x.k = "num" -> IntStr(x.v)
      [] x.k = "str" -> x.s

\* float(x); a blank cell is the float nan
Float(x) ==
    CASE x.k = "nan" -> FloatNaN
      [] x.k = "num" -> Normal(x.v, 0)
      [] x.k = "str" -> FloatOfText(x.s)


(***************************************************************************)
(* The sheets and the category labels the scanner is run on                *)
(***************************************************************************)
MaxWidth == 11
MaxRows == 2
\* line 47: the rows the sweep reads
SweepRows == 20
WideWidth == 18

\* A row of width w with the given cells and blanks elsewhere
Row(w, cells) == [i \in 1..w |-> IF (i - 1) \in DOMAIN cells THEN cells[i - 1] ELSE NaN]

MesOctubre == 0 :> Txt("Mes - Octubre")
MesNoviembre == 0 :> Txt("Mes - Noviembre")
MesSetiembre == 1 :> Txt("Mes - Setiembre")

HeaderActividad2 ==
    0 :> Txt("Semana (Lunes a Sábado)") @@ 2 :> Txt("Actividad")
      @@ 9 :> Txt("Costo Total (Dólares)")
HeaderActividad3 ==
    0 :> Txt("Semana (Lunes a Sábado)") @@ 3 :> Txt("Detalle")
      @@ 9 :> Txt("Costo Total (Dólares)")
HeaderScenario ==
    0 :> Txt("SEM") @@ 1 :> Txt("ACTIVIDAD") @@ 9 :> Txt("COSTO_1") @@ 10 :> Txt("COSTO_2")

DataWeek1 == 0 :> Num(1) @@ 2 :> Txt("Poda") @@ 3 :> Txt("Riego") @@ 9 :> Num(150)
DataNoWeek == 2 :> Txt("Deshierbo") @@ 3 :> Txt("Abono") @@ 9 :> Num(80)
DataWeek2 == 0 :> Num(2) @@ 2 :> Txt("Cosecha") @@ 9 :> Txt("1700.50")
DataZero == 0 :> Num(1) @@ 2 :> Txt("Fertilizante X") @@ 9 :> Num(0) @@ 10 :> Num(0)
DataPlaceholder == 2 :> Txt("Fertilizante X") @@ 9 :> Txt("-") @@ 10 :> Txt("n/a")
DataNegative == 2 :> Txt("Ajuste") @@ 9 :> Num(0 - 5)
DataBlankActividad == 0 :> Num(1) @@ 2 :> Txt(" ") @@ 9 :> Num(150)
DataNoActividad == 0 :> Num(1) @@ 9 :> Num(150)
DataSecondOnly == 2 :> Txt("Poda") @@ 10 :> Num(1700)
TotalActividad == 2 :> Txt("Total") @@ 9 :> Num(150) @@ 10 :> Num(1700)
TotalUpper == 2 :> Txt("TOTAL") @@ 9 :> Num(230)
DataNanText == 2 :> Txt("Flete") @@ 9 :> Txt(" nan")
MesMinusculas == 0 :> Txt("mes - octubre") @@ 2 :> Txt("Poda") @@ 9 :> Num(40)
MesConCosto ==
    1 :> Txt("Mes - Diciembre") @@ 2 :> Txt("Poda") @@ 8 :> Txt("Costo Total (Dólares)")
      @@ 9 :> Num(99)
HeaderHa ==
    0 :> Txt("Semana (Lunes a Sábado)") @@ 2 :> Txt("Actividad")
      @@ 9 :> Txt("Costo Total (Dólares)") @@ 10 :> Txt("Costo Total (Dólares/ha)")
HeaderShifted ==
    2 :> Txt("Insumo") @@ 8 :> Txt("Costo Total (Dólares)") @@ 9 :> Num(150)
DataDash == 0 :> Num(3) @@ 2 :> Txt("Raleo") @@ 9 :> Txt("-") @@ 10 :> Num(1700)
MesMayusculas == 0 :> Txt("MES - OCTUBRE") @@ 2 :> Txt("Riego") @@ 9 :> Num(60)
MesVacio == 0 :> Txt("Mes -")
HeaderFar == 16 :> Txt("Costo Total (Dólares)") @@ 17 :> Txt("Detalle")
DataFar ==
    0 :> Num(1) @@ 2 :> Txt("Poda") @@ 9 :> Num(150) @@ 16 :> Num(999)
      @@ 17 :> Txt("Resumen")
DataScenario ==
    0 :> Txt("1") @@ 1 :> Txt("Poda") @@ 2 :> Txt("") @@ 9 :> Txt("150.0")
      @@ 10 :> Txt("1700.0")
TotalScenario ==
    0 :> Txt("Total") @@ 1 :> Txt("") @@ 2 :> Txt("") @@ 9 :> Txt("150.0")
      @@ 10 :> Txt("1700.0")

\* Every kind of row, for the short sheets
RichRows ==
    {MesOctubre, MesNoviembre, MesSetiembre, HeaderActividad2, HeaderActividad3,
     HeaderScenario, DataWeek1, DataNoWeek, DataWeek2, DataZero, DataPlaceholder,
     DataNegative, DataBlankActividad, DataNoActividad, DataSecondOnly,
     TotalActividad, TotalUpper, DataScenario, TotalScenario, DataNanText,
     MesMinusculas}

\* The rows of the sheets with cost headers in more than one column
CostRows ==
    {MesConCosto, HeaderHa, HeaderShifted, DataDash, HeaderActividad2, DataSecondOnly,
     MesMayusculas, MesMinusculas, MesNoviembre}

\* The rows of the wide sheets, with a summary table right of the report
WideRows == {HeaderFar, DataFar, HeaderActividad2, MesOctubre}

\* Three reports: month blocks with weeks left blank, a header that moves the
\* activity column after a month separator, and a report with its own header
\* labels and a closing total row
ReportMonths ==
    <<MesOctubre, DataWeek1, DataNoWeek, DataNoWeek, MesSetiembre, DataWeek2>>
ReportHeaders ==
    <<HeaderActividad2, DataWeek1, MesOctubre, HeaderActividad3, DataWeek1>>
ReportScenario ==
    <<MesNoviembre, HeaderScenario, DataScenario, TotalScenario>>
\* a month that ends with a week and a month that begins without one
ReportReset ==
    <<MesOctubre, DataWeek2, MesNoviembre, DataNoWeek, DataWeek1>>

\* a separator that names no month
ReportVacio == <<DataNoWeek, MesVacio, DataWeek1>>

Reports == {ReportMonths, ReportHeaders, ReportScenario, ReportReset, ReportVacio}

AllRows ==
    RichRows \cup CostRows \cup WideRows
        \cup UNION {{rep[i] : i \in DOMAIN rep} : rep \in Reports}

\* The cells the sheets are made of
Vocabulary == {NaN} \cup UNION {{r[i] : i \in DOMAIN r} : r \in AllRows}

\* The sequences of length at most n over S
SeqsUpTo(S, n) == UNION {[1..k -> S] : k \in 0..n}

\* The rows of rep at the positions keep, in their order
Pick(rep, keep) ==
    [k \in 1..Cardinality(keep) |->
        rep[CHOOSE i \in keep : Cardinality({j \in keep : j < i}) = k - 1]]

\* A report and what is left of it when rows are deleted
Excerpts(rep) == {Pick(rep, keep) : keep \in SUBSET (1..Len(rep))}

Sheet(w, rows) == [r \in 1..Len(rows) |-> Row(w, rows[r])]

Widths == {0, 1, 3, MaxWidth - 1}

\* A sheet of n data rows, then a header that names column 3 for the
\* activity, then a data row
LongSheet(n) ==
    Sheet(MaxWidth, [i \in 1..n |-> DataNoWeek] \o <<HeaderActividad3, DataWeek1>>)

\* The header is the last row the sweep reads, or the first it does not
LongSheets == {LongSheet(n) : n \in {SweepRows - 1, SweepRows}}

Sheets ==
    {Sheet(MaxWidth, rows) : rows \in SeqsUpTo(RichRows, MaxRows)}
    \cup {Sheet(w, rows) : w \in Widths, rows \in SeqsUpTo(RichRows, 1)}
    \cup UNION {{Sheet(MaxWidth, rows) : rows \in Excerpts(rep)} : rep \in Reports}
    \cup {Sheet(MaxWidth, rows) : rows \in SeqsUpTo(CostRows, MaxRows)}
    \cup {Sheet(WideWidth, rows) : rows \in SeqsUpTo(WideRows, MaxRows)}
    \cup LongSheets

Hojas == {"Mano de Obra", "Insumos"}

(***************************************************************************)
(* Sheets.  A row is a sequence of cells; column index i of the code is    *)
(* position i + 1 of the sequence.                                         *)
(***************************************************************************)
Width(df) == IF Len(df) = 0 THEN 0 ELSE Len(df[1])

\* row.values[i] is defined
InRange(r, i) == i >= 0 /\ i < Len(r)

\* row.values[i]
At(r, i) == r[i + 1]

(***************************************************************************)
(* The initial sweep for the column indices (lines 41-61)                  *)
(***************************************************************************)

NotFound == 0 - 1

\* line 50
IsSemanaHeader(val) == Contains(val, "semana") /\ Contains(val, "lunes")

\* a variant that leaves the per-hectare total aside
IsCostoHeader_NoHa(val) ==
    Contains(val, "costo total") /\ Contains(val, "dólar") /\ ~Contains(val, "/ha")

\* line 52
IsCostoHeader(val) == Contains(val, "costo total") /\ Contains(val, "dólar")

\* line 54
IsActividadHeader(val) ==
    Contains(val, "actividad") \/ Contains(val, "insumo") \/ Contains(val, "detalle")

\* line 48: str(x).lower().  The tests of lines 50-54 are evaluated once for
\* every cell of the vocabulary and looked up by the sweep.
SemanaHeaders == {c \in Vocabulary : IsSemanaHeader(Lower(Str(c)))}
CostoHeaders == {c \in Vocabulary : IsCostoHeader(Lower(Str(c)))}
ActividadHeaders == {c \in Vocabulary : IsActividadHeader(Lower(Str(c)))}

Min(a, b) == IF a < b THEN a ELSE b

\* a variant that reads every row of the sheet
SweepHits_AllRows(df, headers) ==
    {p \in (1..Len(df)) \X (0..(Width(df) - 1)) : At(df[p[1]], p[2]) \in headers}

\* a variant that reads the first fifteen columns only
SweepHits_Leading(df, headers) ==
    {p \in (1..Min(SweepRows, Len(df))) \X (0..(Min(15, Width(df)) - 1)) :
        At(df[p[1]], p[2]) \in headers}

\* The cells <<r, i>> of the first rows that are among the given header cells
SweepHits(df, headers) ==
    {p \in (1..Min(SweepRows, Len(df))) \X (0..(Width(df) - 1)) :
        At(df[p[1]], p[2]) \in headers}

SweepIndex_First(df, headers) ==
    LET hits == SweepHits(df, headers)
    IN  IF hits = {} THEN NotFound
        ELSE LET firstHit == CHOOSE p \in hits : \A q \in hits :
                                 p[1] < q[1] \/ (p[1] = q[1] /\ p[2] <= q[2])
             IN  firstHit[2]

\* The index the loops leave: every hit overwrites the one before, so the
\* last hit in row-then-column order stays
SweepIndex(df, headers) ==
    LET hits == SweepHits(df, headers)
    IN  IF hits = {} THEN NotFound
        ELSE LET last == CHOOSE p \in hits : \A q \in hits :
                             q[1] < p[1] \/ (q[1] = p[1] /\ q[2] <= p[2])
             IN  last[2]

DefaultSemanaIdx == 0
DefaultActividadIdx == 2
DefaultCostoIdx == 9

SemanaIdx(df) ==
    LET i == SweepIndex(df, SemanaHeaders)
    IN  IF i = NotFound THEN DefaultSemanaIdx ELSE i

CostoIdx_Last(df) == Width(df) - 1

\* a variant that falls back to the default only when no activity header
\* was found either
CostoIdx_Coupled(df) ==
    IF SweepIndex(df, ActividadHeaders) = NotFound THEN DefaultCostoIdx
    ELSE SweepIndex(df, CostoHeaders)

CostoIdx(df) ==
    LET i == SweepIndex(df, CostoHeaders)
    IN  IF i = NotFound THEN DefaultCostoIdx ELSE i

ActividadIdx(df) ==
    LET i == SweepIndex(df, ActividadHeaders)
    IN  IF i = NotFound THEN DefaultActividadIdx ELSE i

(***************************************************************************)
(* One row of the pass (lines 64-116).  As for the sweep, what the code    *)
(* computes from one cell is evaluated once per cell of the vocabulary.    *)
(***************************************************************************)
InitialMonth == "Desconocido"

IsMonthCell_AnyCase(cell) == Contains(Lower(cell), "mes -")

\* line 73: the text announces a month
IsMonthCell(cell) == Contains(cell, "Mes -")

\* line 76: len(cell.split("-")) > 1
HasParts(cell) == \E i \in 1..Len(cell) : Char(cell, i) = "-"

\* lines 75-77: the month the text names
MonthName(cell) == Strip(SplitDashSecond(cell))

MonthMarkers == {c \in Vocabulary : IsMonthCell(Str(c)) /\ HasParts(Str(c))}

MonthNames == [c \in MonthMarkers |-> MonthName(Str(c))]

\* a variant that looks for the marker in the first cell only
MonthCells_FirstCell(r) == {i \in 1..Min(1, Len(r)) : r[i] \in MonthMarkers}

\* lines 72-79: the positions of the cells that set the month
MonthCells(r) == {i \in 1..Len(r) : r[i] \in MonthMarkers}

IsMonthRow(r) == MonthCells(r) # {}

\* the loop breaks at the first such cell
RowMonth(r) ==
    LET i == CHOOSE j \in MonthCells(r) : \A k \in MonthCells(r) : j <= k
    IN  MonthNames[r[i]]

\* line 84: a repeated header
IsRepeatedHeader(cell) == Contains(Str(cell), "Semana") \/ Contains(Str(cell), "Rubro")

RepeatedHeaders == {c \in Vocabulary : IsRepeatedHeader(c)}

IsEmptyCosto_TextOnly(cell) == Strip(Str(cell)) = ""

\* line 97: the cost cell is empty
IsEmptyCosto(cell) ==
    isna(cell) \/ Strip(Str(cell)) = "" \/ Lower(Str(cell)) = "nan"

EmptyCostos == {c \in Vocabulary : IsEmptyCosto(c)}

\* a variant that takes what is no number for zero
CostoFloat_ZeroDefault(cell) == IF Float(cell) = NoFloat THEN Normal(0, 0) ELSE Float(cell)

\* lines 100-104: float(val_costo), NoFloat for the exception
CostoFloat(cell) == Float(cell)

Floats == [c \in Vocabulary |-> CostoFloat(c)]

Accepted_NonZero(f) == f # NoFloat /\ ~(f.kind = "fin" /\ f.m = 0)

\* lines 101-104: the conversion raised nothing
Accepted(f) == f # NoFloat

SemanaOf_Raw(cell) == cell

\* a variant that writes a number with the label of the week
SemanaOf_Labelled(cell) ==
    IF isna(cell) THEN Txt("S/N")
    ELSE IF cell.k = "num" THEN Txt("Semana " \o Str(cell)) ELSE cell

\* a variant that starts a month at its first week
SemanaOf_FirstWeek(cell) == IF isna(cell) THEN Txt("Semana 1") ELSE cell

\* line 109
SemanaOf(cell) == IF isna(cell) THEN Txt("S/N") ELSE cell

\* line 110
ActividadOf(cell) == IF isna(cell) THEN "Varios" ELSE Str(cell)

Actividades == [c \in Vocabulary |-> ActividadOf(c)]

\* a variant that takes the category from the activity cell
Entry_CategoriaFromCell(r, month, hoja, cs, cc, ca) ==
    [Mes       |-> month,
     Semana    |-> SemanaOf(At(r, cs)),
     Actividad |-> Actividades[At(r, ca)],
     Costo_USD |-> Floats[At(r, cc)],
     Categoria |-> Actividades[At(r, ca)]]

\* lines 107-113
Entry(r, month, hoja, cs, cc, ca) ==
    [Mes       |-> month,
     Semana    |-> SemanaOf(At(r, cs)),
     Actividad |-> Actividades[At(r, ca)],
     Costo_USD |-> Floats[At(r, cc)],
     Categoria |-> hoja]

(***************************************************************************)
(* The scan as a state machine                                             *)
(***************************************************************************)
VARIABLES
    df_raw,             \* the sheet (argument)
    nombre_hoja,        \* the category label (argument)
    pc,                 \* "sweep", "rows", "returned" or "raised"
    index,              \* the row the pass is at
    current_month,
    col_semana_idx,
    col_costo_idx,
    col_actividad_idx,
    data,               \* the entries appended so far
    origin,             \* history: the row each entry of data came from
    calls,              \* history: the number of calls begun
    first               \* history: what the first call returned

\* The state of the two pages modelled further below, which the scanner
\* neither reads nor writes
VARIABLES
    supabase,                   \* the connection of a page: TRUE, or FALSE for None
    localStorage,               \* fenología: the item under LOCAL_STORAGE_KEY
    Evaluaciones_Fenologicas,   \* fenología: the rows of the remote table
    guardados,                  \* history: the records saved to the device
    ultimo,                     \* history: what the last run of fenología did
    paso,                       \* fertirriego: where the run of the script is
    TZ_PERU,                    \* fertirriego: TRUE, or FALSE for None
    recipes_completas,          \* fertirriego: TRUE, or FALSE for None
    fecha_actual_peru,
    tarea_de_hoy,               \* st.session_state.tarea_de_hoy
    testigo_vol_aplicado_ml,    \* st.session_state, in mL
    testigo_vol_drenado_ml,
    submitted,
    Jornada_Riego,              \* fertirriego: the rows of the remote table
    inserts,                    \* history: the inserts attempted in this run
    runs                        \* history: the runs of the script begun

scanVars == <<df_raw, nombre_hoja, pc, index, current_month, col_semana_idx,
              col_costo_idx, col_actividad_idx, data, origin, calls, first>>

fenologiaVars == <<localStorage, Evaluaciones_Fenologicas, guardados, ultimo>>

riegoVars == <<paso, TZ_PERU, recipes_completas, fecha_actual_peru, tarea_de_hoy,
               testigo_vol_aplicado_ml, testigo_vol_drenado_ml, submitted,
               Jornada_Riego, inserts, runs>>

pages == <<supabase, fenologiaVars, riegoVars>>

vars == <<scanVars, pages>>

\* json.loads of no item is not called: getItem gave None
None == [kind |-> "None"]

NoDate == [y |-> 1, m |-> 1, d |-> 1]

\* The page of fenología before its first run
FenologiaIdle ==
    /\ localStorage = None
    /\ Evaluaciones_Fenologicas = <<>>
    /\ guardados = <<>>
    /\ ultimo = "nada"

\* The page of fertirriego before its first run
RiegoIdle ==
    /\ paso = "sin abrir"
    /\ TZ_PERU = TRUE
    /\ recipes_completas = TRUE
    /\ fecha_actual_peru = NoDate
    /\ tarea_de_hoy = ""
    /\ testigo_vol_aplicado_ml = 0
    /\ testigo_vol_drenado_ml = 0
    /\ submitted = FALSE
    /\ Jornada_Riego = <<>>
    /\ inserts = 0
    /\ runs = 0

\* The scanner not called
ScanIdle ==
    /\ df_raw = <<>>
    /\ nombre_hoja = ""
    /\ pc = "returned"
    /\ index = 1
    /\ current_month = ""
    /\ col_semana_idx = 0
    /\ col_costo_idx = 0
    /\ col_actividad_idx = 0
    /\ data = <<>>
    /\ origin = <<>>
    /\ calls = 0
    /\ first = <<>>

MaxCalls == 2

NoResult == <<[Mes |-> "", Semana |-> NaN, Actividad |-> "", Costo_USD |-> NoFloat,
               Categoria |-> "no result"]>>

Enter_KeepMonth ==
    /\ pc' = "sweep"
    /\ index' = 0
    /\ current_month' = current_month
    /\ col_semana_idx' = NotFound
    /\ col_costo_idx' = NotFound
    /\ col_actividad_idx' = NotFound
    /\ data' = <<>>
    /\ origin' = <<>>

\* lines 33-43: the locals of a call
Enter ==
    /\ pc' = "sweep"
    /\ index' = 0
    /\ current_month' = InitialMonth
    /\ col_semana_idx' = NotFound
    /\ col_costo_idx' = NotFound
    /\ col_actividad_idx' = NotFound
    /\ data' = <<>>
    /\ origin' = <<>>

Init ==
    /\ df_raw \in Sheets
    /\ nombre_hoja \in Hojas
    /\ pc = "sweep"
    /\ index = 0
    /\ current_month = InitialMonth
    /\ col_semana_idx = NotFound
    /\ col_costo_idx = NotFound
    /\ col_actividad_idx = NotFound
    /\ data = <<>>
    /\ origin = <<>>
    /\ calls = 1
    /\ first = NoResult
    /\ supabase = FALSE
    /\ FenologiaIdle
    /\ RiegoIdle

\* lines 47-61
Sweep ==
    /\ pc = "sweep"
    /\ col_semana_idx' = SemanaIdx(df_raw)
    /\ col_costo_idx' = CostoIdx(df_raw)
    /\ col_actividad_idx' = ActividadIdx(df_raw)
    /\ pc' = "rows"
    /\ index' = 1
    /\ UNCHANGED <<df_raw, nombre_hoja, current_month, data, origin, calls, first>>
    /\ UNCHANGED pages

AtRow == pc = "rows" /\ index <= Len(df_raw)

row == df_raw[index]

\* line 67, and line 84 when the row is no month row: an index outside the
\* row, outside the try
Raises(r) ==
    \/ ~InRange(r, 0)
    \/ ~IsMonthRow(r) /\ ~InRange(r, col_semana_idx)

\* lines 88-91 under the try: one of the three columns is outside the row
IndexError(r) ==
    \/ ~InRange(r, col_semana_idx)
    \/ ~InRange(r, col_costo_idx)
    \/ ~InRange(r, col_actividad_idx)

Skip ==
    /\ index' = index + 1
    /\ UNCHANGED <<df_raw, nombre_hoja, pc, current_month, col_semana_idx,
                   col_costo_idx, col_actividad_idx, data, origin, calls, first>>
    /\ UNCHANGED pages

\* lines 67, 84: the exception leaves the function
RowRaises ==
    /\ AtRow
    /\ Raises(row)
    /\ pc' = "raised"
    /\ UNCHANGED <<df_raw, nombre_hoja, index, current_month, col_semana_idx,
                   col_costo_idx, col_actividad_idx, data, origin, calls, first>>
    /\ UNCHANGED pages

\* lines 71-81
RowIsMonth ==
    /\ AtRow
    /\ ~Raises(row)
    /\ IsMonthRow(row)
    /\ current_month' = RowMonth(row)
    /\ index' = index + 1
    /\ UNCHANGED <<df_raw, nombre_hoja, pc, col_semana_idx, col_costo_idx,
                   col_actividad_idx, data, origin, calls, first>>
    /\ UNCHANGED pages

IsDataRow(r) ==
    /\ ~Raises(r)
    /\ ~IsMonthRow(r)
    /\ ~At(r, col_semana_idx) \in RepeatedHeaders

\* a variant in which a repeated header moves the activity column
RowIsHeader_Recalibrate ==
    /\ AtRow
    /\ ~Raises(row)
    /\ ~IsMonthRow(row)
    /\ At(row, col_semana_idx) \in RepeatedHeaders
    /\ index' = index + 1
    /\ col_actividad_idx' =
          LET hits == {i \in 0..(Len(row) - 1) : At(row, i) \in ActividadHeaders}
          IN  IF hits = {} THEN col_actividad_idx
              ELSE CHOOSE i \in hits : \A h \in hits : h <= i
    /\ UNCHANGED <<df_raw, nombre_hoja, pc, current_month, col_semana_idx,
                   col_costo_idx, data, origin, calls, first>>
    /\ UNCHANGED pages

\* lines 84-85
RowIsHeader ==
    /\ AtRow
    /\ ~Raises(row)
    /\ ~IsMonthRow(row)
    /\ At(row, col_semana_idx) \in RepeatedHeaders
    /\ Skip

\* lines 115-116
RowIndexError ==
    /\ AtRow
    /\ IsDataRow(row)
    /\ IndexError(row)
    /\ Skip

\* lines 97-98
RowEmptyCosto ==
    /\ AtRow
    /\ IsDataRow(row)
    /\ ~IndexError(row)
    /\ At(row, col_costo_idx) \in EmptyCostos
    /\ Skip

\* lines 100-104
RowNotNumber ==
    /\ AtRow
    /\ IsDataRow(row)
    /\ ~IndexError(row)
    /\ At(row, col_costo_idx) \notin EmptyCostos
    /\ ~Accepted(Floats[At(row, col_costo_idx)])
    /\ Skip

Emits(r) ==
    /\ IsDataRow(r)
    /\ ~IndexError(r)
    /\ At(r, col_costo_idx) \notin EmptyCostos
    /\ Accepted(Floats[At(r, col_costo_idx)])

\* a variant that puts the new entry first
RowEmit_Prepend ==
    /\ AtRow
    /\ Emits(row)
    /\ data' = <<Entry(row, current_month, nombre_hoja, col_semana_idx,
                        col_costo_idx, col_actividad_idx)>> \o data
    /\ origin' = <<index>> \o origin
    /\ index' = index + 1
    /\ UNCHANGED <<df_raw, nombre_hoja, pc, current_month, col_semana_idx,
                   col_costo_idx, col_actividad_idx, calls, first>>
    /\ UNCHANGED pages

\* lines 106-113
RowEmit ==
    /\ AtRow
    /\ Emits(row)
    /\ data' = Append(data, Entry(row, current_month, nombre_hoja, col_semana_idx,
                                  col_costo_idx, col_actividad_idx))
    /\ origin' = Append(origin, index)
    /\ index' = index + 1
    /\ UNCHANGED <<df_raw, nombre_hoja, pc, current_month, col_semana_idx,
                   col_costo_idx, col_actividad_idx, calls, first>>
    /\ UNCHANGED pages

\* line 118
Return ==
    /\ pc = "rows"
    /\ index > Len(df_raw)
    /\ pc' = "returned"
    /\ first' = IF calls = 1 THEN data ELSE first
    /\ UNCHANGED <<df_raw, nombre_hoja, index, current_month, col_semana_idx,
                   col_costo_idx, col_actividad_idx, data, origin, calls>>
    /\ UNCHANGED pages

\* lines 197-204, 253: the page calls the scanner again on the sheet
CallAgain ==
    /\ pc = "returned"
    /\ calls < MaxCalls
    /\ calls' = calls + 1
    /\ Enter
    /\ UNCHANGED <<df_raw, nombre_hoja, first>>
    /\ UNCHANGED pages

Next ==
    \/ Sweep
    \/ RowRaises
    \/ RowIsMonth
    \/ RowIsHeader
    \/ RowIndexError
    \/ RowEmptyCosto
    \/ RowNotNumber
    \/ RowEmit
    \/ Return
    \/ CallAgain

Spec == Init /\ [][Next]_vars

(***************************************************************************)
(* Properties.  What they say of a row is spelled out on the cells of the  *)
(* sheet, not through the operators the actions use.                       *)
(***************************************************************************)
Returned == pc = "returned"

\* float(x) of every cell of the vocabulary, evaluated once
CellFloats == [c \in Vocabulary |-> Float(c)]

FloatOfCell(c) == CellFloats[c]

Entries == 1..Len(data)

\* The row an entry came from, and its cells under the layout of the scan
RowOf(k) == df_raw[origin[k]]
CostoCell(k) == At(RowOf(k), col_costo_idx)
ActividadCell(k) == At(RowOf(k), col_actividad_idx)
SemanaCell(k) == At(RowOf(k), col_semana_idx)

Number(n) == [kind |-> "fin", m |-> n, e |-> 0]

IsPositive(f) == (f.kind = "fin" /\ f.m > 0) \/ (f.kind = "inf" /\ f.m > 0)

IsZero(f) == f.kind = "fin" /\ f.m = 0

BlankTexts == {c \in Vocabulary : isna(c) \/ Strip(Str(c)) = ""}

\* C1 as stated: every entry has a non-blank activity and a strictly
\* positive cost.
C1_NonBlankPositive ==
    \A k \in Entries :
        /\ Strip(data[k].Actividad) # ""
        /\ IsPositive(data[k].Costo_USD)

\* C1 amended: every entry has an activity that is the text of the activity
\* cell ("Varios" for a missing cell, a blank text kept as it is) and a cost
\* that is the float of a cost cell that is not missing and not blank; the
\* cost may be zero, negative or nan.
C1_ActivityAndCostPresent ==
    \A k \in Entries :
        /\ data[k].Actividad = IF isna(ActividadCell(k)) THEN "Varios"
                               ELSE Str(ActividadCell(k))
        /\ CostoCell(k) \notin BlankTexts
        /\ data[k].Costo_USD = FloatOfCell(CostoCell(k))
        /\ data[k].Costo_USD.kind \in {"fin", "nan", "inf"}

\* C1 witness: a scan returned an entry of cost zero and an entry of blank
\* activity.
C1_Witness ==
    /\ Returned
    /\ \E k \in Entries : IsZero(data[k].Costo_USD)
    /\ \E k \in Entries : Strip(data[k].Actividad) = ""

SeparatorCells == {c \in Vocabulary : Contains(Str(c), "Mes -")}

IsSeparatorRow(r) == \E i \in 1..Len(r) : r[i] \in SeparatorCells

SeparatorsAbove(j) == {i \in 1..(j - 1) : IsSeparatorRow(df_raw[i])}

Highest(S) == CHOOSE i \in S : \A j \in S : j <= i

\* The month a separator row names: the text after the dash of its first
\* marker cell
SeparatorMonth(r) ==
    LET i == CHOOSE j \in 1..Len(r) :
                 r[j] \in SeparatorCells /\ \A h \in 1..(j - 1) : r[h] \notin SeparatorCells
    IN  MonthName(Str(r[i]))

\* C2: every entry from a row below a month separator carries the month of
\* the nearest separator above it, and during the pass the current month
\* changes only at a separator row.
C2_MonthFillForward ==
    /\ [](\A k \in Entries :
             SeparatorsAbove(origin[k]) # {} =>
                 data[k].Mes = SeparatorMonth(df_raw[Highest(SeparatorsAbove(origin[k]))]))
    /\ [][(pc = "rows" /\ current_month' # current_month) => IsSeparatorRow(row)]_vars

\* C2 witness: an entry two rows below its separator, and a later entry
\* under the month of a later separator.
C2_Witness ==
    /\ Returned
    /\ \E k \in Entries, h \in Entries :
          /\ k < h
          /\ data[k].Mes = "Octubre"
          /\ origin[k] - Highest(SeparatorsAbove(origin[k]) \cup {0}) >= 2
          /\ data[h].Mes = "Setiembre"

\* The rows of the month block of row j that lie above it
BlockAbove(j) == (Highest(SeparatorsAbove(j) \cup {0}) + 1)..(j - 1)

\* The rows above row j, in its month block, that gave an entry with a week
WeeksAbove(j) ==
    {i \in BlockAbove(j) :
        (\E h \in Entries : origin[h] = i) /\ ~isna(At(df_raw[i], col_semana_idx))}

\* The ways to write the week of a week cell: as it is, or with the label
WeekLabels(c) == {c, Txt("Semana " \o Str(c))}

\* C3 as stated: an entry from a row with a blank week cell carries the week
\* of the nearest week cell above it in its month block.
C3_WeekFillForward ==
    \A k \in Entries :
        (isna(SemanaCell(k)) /\ WeeksAbove(origin[k]) # {}) =>
            data[k].Semana \in
                WeekLabels(At(df_raw[Highest(WeeksAbove(origin[k]))], col_semana_idx))

OctubreSheet == Sheet(MaxWidth, <<MesOctubre, DataWeek1, DataNoWeek, DataNoWeek>>)

\* C3 amended: an entry from a row with a blank week cell carries the
\* placeholder "S/N" and any other entry the week cell as it is; after one
\* separator and three data rows of which the first has week 1, the weeks are
\* 1, "S/N", "S/N" and the month of all three is the separator's.
C3_WeekPlaceholder ==
    /\ \A k \in Entries :
          data[k].Semana = IF isna(SemanaCell(k)) THEN Txt("S/N") ELSE SemanaCell(k)
    /\ (Returned /\ df_raw = OctubreSheet) =>
          /\ [k \in Entries |-> data[k].Semana] = <<Num(1), Txt("S/N"), Txt("S/N")>>
          /\ [k \in Entries |-> data[k].Mes] = <<"Octubre", "Octubre", "Octubre">>

\* C3 witness: the sheet of the example has been scanned.
C3_Witness == Returned /\ df_raw = OctubreSheet /\ Len(data) = 3

TotalCells == {c \in Vocabulary : Lower(Str(c)) = "total"}

\* C4: no entry comes from a row whose activity cell is the word Total.
C4_TotalRowExcluded == \A k \in Entries : ActividadCell(k) \notin TotalCells

\* C5: the scan never raises.
C5_NeverRaises == pc # "raised"

HeaderAt(headers) ==
    {p \in (1..Min(SweepRows, Len(df_raw))) \X (0..(Width(df_raw) - 1)) :
        At(df_raw[p[1]], p[2]) \in headers}

ActividadHeaderAt == HeaderAt(ActividadHeaders)

\* The order of the sweep: row by row, and column by column in a row
Before(p, q) == p[1] < q[1] \/ (p[1] = q[1] /\ p[2] <= q[2])

\* The activity header rows above row j
HeadersAbove(j) == {i \in 1..(j - 1) : \E p \in ActividadHeaderAt : p[1] = i}

\* The column an activity header row gives the activity
HeaderColumn(i) ==
    LET ps == {p \in ActividadHeaderAt : p[1] = i}
    IN  (CHOOSE p \in ps : \A q \in ps : Before(q, p))[2]

\* The index is the column of the last of the header cells, if there is one
LastWins(headers, idx) ==
    HeaderAt(headers) # {} =>
        \E q \in HeaderAt(headers) :
            q[2] = idx /\ \A p \in HeaderAt(headers) : Before(p, q)

ActividadText(c) == IF isna(c) THEN "Varios" ELSE Str(c)

\* C7 as stated: a data row is read with the layout of the nearest header
\* row above it.
C7_HeaderRecalibration ==
    \A k \in Entries :
        HeadersAbove(origin[k]) # {} =>
            data[k].Actividad =
                ActividadText(At(RowOf(k), HeaderColumn(Highest(HeadersAbove(origin[k])))))

HeadersSheet == Sheet(MaxWidth, ReportHeaders)

\* C7 amended: every data row is read with the one layout the sweep leaves,
\* in which the last activity header cell of the sheet wins; the pass never
\* changes it, so with a header for column 2 and a later one for column 3
\* the rows between them and the rows after are both read from column 3.
C7_SingleLayout ==
    /\ [](pc # "sweep" =>
            /\ LastWins(ActividadHeaders, col_actividad_idx)
            /\ LastWins(CostoHeaders, col_costo_idx)
            /\ LastWins(SemanaHeaders, col_semana_idx)
            /\ \A k \in Entries : data[k].Actividad = ActividadText(ActividadCell(k))
            /\ (Returned /\ df_raw = HeadersSheet) =>
                  [k \in Entries |-> data[k].Actividad] = <<"Riego", "Riego">>)
    /\ [][(pc = "rows" /\ pc' = "rows") =>
              UNCHANGED <<col_semana_idx, col_costo_idx, col_actividad_idx>>]_vars

\* C7 witness: the sheet with the two headers has been scanned.
C7_Witness == Returned /\ df_raw = HeadersSheet /\ origin = <<2, 5>>

\* The cost cells of a row: the cost column and what lies to its right
CostCells(r) == {At(r, i) : i \in col_costo_idx..(Len(r) - 1)}

ZeroOrPlaceholder(c) == c \in BlankTexts \/ FloatOfCell(c) = NoFloat \/ IsZero(FloatOfCell(c))

\* C8 as stated: a row with an activity whose cost cells are all zero or
\* placeholders gives no entry.
C8_ZeroCostFiltered ==
    \A k \in Entries :
        ~(/\ ActividadCell(k) \notin BlankTexts
          /\ \A c \in CostCells(RowOf(k)) : ZeroOrPlaceholder(c))

\* The rows the pass has gone through
Passed == IF pc \in {"rows", "returned"} THEN 1..(index - 1) ELSE {}

HasEntry(j) == \E k \in Entries : origin[k] = j

\* The cells with a word of the header of the week column
HeaderWordCells ==
    {c \in Vocabulary : Contains(Str(c), "Semana") \/ Contains(Str(c), "Rubro")}

\* A row that is neither a month separator nor a repeated header and holds
\* the three columns of the layout
IsPlainRow(r) ==
    /\ ~IsSeparatorRow(r)
    /\ InRange(r, col_semana_idx) /\ InRange(r, col_costo_idx)
    /\ InRange(r, col_actividad_idx)
    /\ At(r, col_semana_idx) \notin HeaderWordCells

\* C8 amended: a row whose cost cell is blank or a placeholder that is no
\* number gives no entry; a data row whose cost cell is the number 0 gives an
\* entry of cost 0.
C8_PlaceholderFiltered ==
    \A j \in Passed :
        /\ (IsPlainRow(df_raw[j])
              /\ (At(df_raw[j], col_costo_idx) \in BlankTexts
                    \/ FloatOfCell(At(df_raw[j], col_costo_idx)) = NoFloat))
           => ~HasEntry(j)
        /\ (IsPlainRow(df_raw[j]) /\ At(df_raw[j], col_costo_idx) = Num(0))
           => \E k \in Entries : origin[k] = j /\ IsZero(data[k].Costo_USD)

\* C8 witness: a row of cost 0 gave an entry and a row of placeholders none.
C8_Witness ==
    /\ Returned
    /\ \E k \in Entries : IsZero(data[k].Costo_USD) /\ data[k].Actividad = "Fertilizante X"
    /\ \E j \in Passed : df_raw[j] = Row(MaxWidth, DataPlaceholder) /\ ~HasEntry(j)

ScenarioSheet == Sheet(MaxWidth, ReportScenario)

C10_MonthNormalized ==
    \A k \in Entries :
        (/\ SeparatorsAbove(origin[k]) # {}
         /\ \E i \in 1..Len(RowOf(k)) :
               df_raw[Highest(SeparatorsAbove(origin[k]))][i] = Txt("Mes - Setiembre"))
        => data[k].Mes = "Septiembre"

\* The cells that hold a total of the currency, as a cost header does
CostTotalCells ==
    {c \in Vocabulary :
        Contains(Lower(Str(c)), "total") /\ Contains(Lower(Str(c)), "dólar")}

\* A row with a cost header cell among its first fifteen columns
IsCostHeaderRow(r) == \E i \in 1..Min(15, Len(r)) : r[i] \in CostTotalCells

\* C11: no entry comes from a row that holds a cost header cell among its
\* leading columns.
C11_HeaderRowExcluded == \A k \in Entries : ~IsCostHeaderRow(RowOf(k))

\* C12: a row with a month marker in any of its cells gives no entry, also
\* when it holds a cost header cell or a number in the cost column, and the
\* step that scans it sets the current month to the month it names and
\* leaves the entries as they are.
C12_MonthRowPriority ==
    /\ [](\A j \in Passed : IsSeparatorRow(df_raw[j]) => ~HasEntry(j))
    /\ [][(pc = "rows" /\ index <= Len(df_raw) /\ IsSeparatorRow(row)) =>
              /\ current_month' = SeparatorMonth(row)
              /\ data' = data
              /\ index' = index + 1]_vars

\* C12 witness: the pass has gone through a separator row with its marker in
\* the second cell, a cost header cell and a number in the cost column, and
\* the current month is the one it names.
C12_Witness ==
    /\ pc = "rows"
    /\ index = 2
    /\ df_raw[1] = Row(MaxWidth, MesConCosto)
    /\ IsCostHeaderRow(df_raw[1])
    /\ FloatOfCell(At(df_raw[1], col_costo_idx)) = Number(99)
    /\ current_month = "Diciembre"
    /\ data = <<>>

\* C13: every entry of a scan carries as category the label the scan was
\* called with, whatever the cells of its row hold.
C13_CategoryIsLabel == \A k \in Entries : data[k].Categoria = nombre_hoja

\* C13 witness: a scan called with the second label returned two entries
\* from rows of different activities.
C13_Witness ==
    /\ Returned
    /\ nombre_hoja = "Insumos"
    /\ \E k \in Entries, h \in Entries : data[k].Actividad # data[h].Actividad

\* The first row with an entry below a month separator that has a
\* separator above it and a blank week cell
StartsMonth(k) ==
    /\ isna(SemanaCell(k))
    /\ SeparatorsAbove(origin[k]) # {}
    /\ \A i \in BlockAbove(origin[k]) : ~HasEntry(i)

FirstWeekLabels == {Num(1), Txt("1"), Txt("Semana 1")}

\* C14 as stated: the entry of the first data row below a month separator,
\* when its week cell is blank, carries the first week of the month.
C14_WeekReset ==
    \A k \in Entries : StartsMonth(k) => data[k].Semana \in FirstWeekLabels

ResetSheet == Sheet(MaxWidth, ReportReset)

\* C14 amended: in what a scan returns, the entry of the first data row
\* below a month separator, when its week cell is blank, carries the
\* placeholder "S/N", which is the
\* week of no entry above it that has a week; after a month that ends in
\* week 2, the month that begins with a blank week cell and goes on with
\* week 1 has the weeks "S/N" and 1.
C14_WeekPlaceholderAtBoundary ==
    Returned =>
        /\ \A k \in Entries :
              StartsMonth(k) =>
                  /\ data[k].Semana = Txt("S/N")
                  /\ \A h \in 1..(k - 1) :
                        ~isna(SemanaCell(h)) => data[h].Semana # data[k].Semana
        /\ df_raw = ResetSheet =>
              [k \in Entries |-> data[k].Semana] = <<Num(2), Txt("S/N"), Num(1)>>

\* C14 witness: a scan returned the entry of a blank week below the second
\* separator, after an entry of week 2 in the month before.
C14_Witness ==
    /\ Returned
    /\ df_raw = ResetSheet
    /\ \E k \in Entries :
          /\ StartsMonth(k)
          /\ data[k].Mes = "Noviembre"
          /\ \E h \in 1..(k - 1) : data[h].Mes = "Octubre" /\ data[h].Semana = Num(2)

\* C15 as stated: at every row below an activity header row, the activity
\* column of the layout is the one the nearest header row above gives.
C15_StickyLayout ==
    (pc = "rows" /\ HeadersAbove(index) # {}) =>
        col_actividad_idx = HeaderColumn(Highest(HeadersAbove(index)))

\* C15 amended: no step of the pass changes the layout, whether it scans a
\* header row, a month separator or a data row, so every entry, above and
\* below every header row, is read with the layout the sweep left.
C15_LayoutFixed ==
    /\ [][pc = "rows" =>
              UNCHANGED <<col_semana_idx, col_costo_idx, col_actividad_idx>>]_vars
    /\ [](\A k \in Entries :
              /\ data[k].Actividad = ActividadText(ActividadCell(k))
              /\ data[k].Costo_USD = FloatOfCell(CostoCell(k))
              /\ data[k].Semana \in {SemanaCell(k), Txt("S/N")})

\* C15 witness: the pass has gone through a header row, a data row and a
\* month separator and stands at a second header row, with the layout of
\* the sweep.
C15_Witness ==
    /\ pc = "rows"
    /\ index = 4
    /\ df_raw = HeadersSheet
    /\ IsSeparatorRow(df_raw[3])
    /\ HeadersAbove(4) = {1}
    /\ col_actividad_idx = 3
    /\ data[1].Actividad = "Riego"

ScanEnded == pc \in {"returned", "raised"}

CostHeaderCells ==
    {c \in Vocabulary :
        Contains(Lower(Str(c)), "costo total") /\ Contains(Lower(Str(c)), "dólar")}

PerHaCells == {c \in CostHeaderCells : Contains(Lower(Str(c)), "/ha")}

\* C17 as stated: the cost column is never the column of a per-hectare
\* header cell, and is the column of a plain cost header cell when the sheet
\* has one.
C17_PerHectareNeverPrimary ==
    pc # "sweep" =>
        /\ \A p \in HeaderAt(PerHaCells) : p[2] # col_costo_idx
        /\ HeaderAt(CostHeaderCells \ PerHaCells) # {} =>
              \E p \in HeaderAt(CostHeaderCells \ PerHaCells) : p[2] = col_costo_idx

\* C17 amended: when the scan ends, the one cost column is the column of the last cell of the
\* first rows that contains "costo total" and "dólar", per-hectare or not,
\* so that a per-hectare header to the right of the plain one is the cost
\* column; every entry has the one cost read there, and no second cost.
C17_LastCostHeader ==
    ScanEnded =>
        /\ LastWins(CostHeaderCells, col_costo_idx)
        /\ \A p \in HeaderAt(PerHaCells) :
              (\A q \in HeaderAt(CostHeaderCells) : Before(q, p)) => col_costo_idx = p[2]
        /\ \A k \in Entries :
              /\ data[k].Costo_USD = FloatOfCell(CostoCell(k))
              /\ DOMAIN data[k] = {"Mes", "Semana", "Actividad", "Costo_USD", "Categoria"}

\* C17 witness: a scan of a sheet whose header has the plain total in column
\* 9 and the per-hectare total in column 10 returned an entry with the
\* number of column 10.
C17_Witness ==
    /\ Returned
    /\ \E p \in HeaderAt(PerHaCells), q \in HeaderAt(CostHeaderCells \ PerHaCells) :
          p[1] = q[1] /\ q[2] = 9 /\ p[2] = 10 /\ col_costo_idx = 10
    /\ \E k \in Entries : data[k].Costo_USD = Number(1700)

\* C18 as stated: no index of the layout is a column beyond the first
\* fifteen.
C18_LeadingColumnsOnly ==
    pc # "sweep" =>
        col_semana_idx < 15 /\ col_costo_idx < 15 /\ col_actividad_idx < 15

\* The last of the given header cells lies beyond the first fifteen columns
\* only if the index is its column
FarHeaderWins(headers, idx) ==
    \A q \in HeaderAt(headers) :
        (q[2] >= 15 /\ \A p \in HeaderAt(headers) : Before(p, q)) => idx = q[2]

\* C18 amended: the sweep reads every column of the first rows, so when the
\* scan ends a header cell beyond the first fifteen columns sets its index when it is the last
\* of its kind, and the entries are read from that column.
C18_EveryColumn ==
    ScanEnded =>
        /\ FarHeaderWins(SemanaHeaders, col_semana_idx)
        /\ FarHeaderWins(CostHeaderCells, col_costo_idx)
        /\ FarHeaderWins(ActividadHeaders, col_actividad_idx)
        /\ \A k \in Entries :
              col_costo_idx >= 15 =>
                  data[k].Costo_USD = FloatOfCell(At(RowOf(k), col_costo_idx))

\* C18 witness: a scan returned an entry read from columns 16 and 17, where
\* the header cells of the sheet are.
C18_Witness ==
    /\ Returned
    /\ col_costo_idx = 16
    /\ col_actividad_idx = 17
    /\ \E k \in Entries :
          data[k].Costo_USD = Number(999) /\ data[k].Actividad = "Resumen"

\* The cells next to the cost column
OtherCosts(r) ==
    {At(r, i) : i \in {col_costo_idx - 1, col_costo_idx + 1} \cap (0..(Len(r) - 1))}

\* A data row with an activity, a cost cell that is blank or no number and
\* a positive number next to it
HasPlaceholderCost(r) ==
    /\ IsPlainRow(r)
    /\ At(r, col_actividad_idx) \notin BlankTexts
    /\ At(r, col_costo_idx) \in BlankTexts \/ FloatOfCell(At(r, col_costo_idx)) = NoFloat
    /\ \E c \in OtherCosts(r) : IsPositive(FloatOfCell(c))

\* C19 as stated: a data row with an activity, a placeholder in the cost
\* cell and a positive number in the other cost cell gives an entry of cost
\* zero.
C19_PlaceholderAsZero ==
    \A j \in Passed :
        HasPlaceholderCost(df_raw[j]) =>
            \E k \in Entries : origin[k] = j /\ IsZero(data[k].Costo_USD)

\* C19 amended: in what a scan returns, a data row with an activity and a
\* placeholder or a blank in the cost cell gives no entry, whatever number the
\* other cost cell holds.
C19_PlaceholderInvalidates ==
    Returned => \A j \in Passed : HasPlaceholderCost(df_raw[j]) => ~HasEntry(j)

\* C19 witness: the pass has gone through a row with a dash in the cost
\* cell and 1700 next to it, and through one with a blank cost cell and 1700
\* next to it, and neither gave an entry.
C19_Witness ==
    /\ Returned
    /\ col_costo_idx = 9
    /\ \E j \in Passed, i \in Passed :
          /\ df_raw[j] = Row(MaxWidth, DataDash)
          /\ df_raw[i] = Row(MaxWidth, DataSecondOnly)
          /\ HasPlaceholderCost(df_raw[j]) /\ HasPlaceholderCost(df_raw[i])
    /\ data = <<>>

TotalWordCells == {c \in Vocabulary : Contains(Lower(Str(c)), "total")}

\* C20: no entry comes from a row whose first cell contains the word total.
C20_FirstCellTotalExcluded == \A k \in Entries : RowOf(k)[1] \notin TotalWordCells

\* The cells with the month marker in another letter case only
OtherCaseMarkers ==
    {c \in Vocabulary : Contains(Lower(Str(c)), "mes -") /\ ~Contains(Str(c), "Mes -")}

HasOtherCaseMarker(r) == \E i \in 1..Len(r) : r[i] \in OtherCaseMarkers

\* C21 as stated: a row with the month marker in any letter case gives no
\* entry.
C21_AnyCaseSeparator ==
    \A j \in Passed : HasOtherCaseMarker(df_raw[j]) => ~HasEntry(j)

\* The month in force at row j: that of the nearest separator above, or the
\* initial one
MonthAbove(j) ==
    IF SeparatorsAbove(j) = {} THEN "Desconocido"
    ELSE SeparatorMonth(df_raw[Highest(SeparatorsAbove(j))])

\* C21 amended: in what a scan returns, a row whose month marker is written
\* in another letter case than "Mes -" is no separator: with a number in its
\* cost cell it gives an entry, under the month that was current above it.
C21_ExactCaseOnly ==
    Returned =>
        \A j \in Passed :
            (/\ HasOtherCaseMarker(df_raw[j])
             /\ IsPlainRow(df_raw[j])
             /\ At(df_raw[j], col_costo_idx).k = "num")
            => \E k \in Entries : origin[k] = j /\ data[k].Mes = MonthAbove(j)

\* C21 witness: below the separator of Noviembre, the row "MES - OCTUBRE"
\* gave an entry of Noviembre.
C21_Witness ==
    /\ Returned
    /\ df_raw = Sheet(MaxWidth, <<MesNoviembre, MesMayusculas>>)
    /\ [k \in Entries |-> data[k].Mes] = <<"Noviembre">>
    /\ data[1].Actividad = "Riego"

\* The week cells that hold a bare number
BareNumbers ==
    {c \in Vocabulary :
        c.k = "num" \/ (c.k = "str" /\ Strip(c.s) # "" /\ AllDigits(Strip(c.s)))}

\* C22 as stated: the week of an entry whose week cell is a bare number is
\* the number with the label of the week before it.
C22_WeekLabelled ==
    \A k \in Entries :
        SemanaCell(k) \in BareNumbers =>
            data[k].Semana = Txt("Semana " \o Strip(Str(SemanaCell(k))))

\* C22 amended: in what a scan returns, the week of an entry whose week cell
\* is a bare number is that cell as it is, a number for a number and a text
\* for a text, with no label.
C22_WeekRaw ==
    Returned =>
        \A k \in Entries :
            SemanaCell(k) \in BareNumbers =>
                /\ data[k].Semana = SemanaCell(k)
                /\ data[k].Semana.k = SemanaCell(k).k

\* C22 witness: a scan returned the week 1 as a number and the week "1" as a
\* text.
C22_Witness ==
    /\ Returned
    /\ \E k \in Entries, h \in Entries :
          data[k].Semana = Num(1) /\ data[h].Semana = Txt("1")

\* C23: the entries are at most as many as the rows, each row gave at most
\* one and they stand in the order of their rows; a step of the pass goes to
\* the next row or ends the pass, and leaves the entries as they are or adds
\* one at the end.
C23_SinglePass ==
    /\ [](/\ Len(data) <= Len(df_raw)
          /\ Len(origin) = Len(data)
          /\ \A k \in Entries, h \in Entries : k < h => origin[k] < origin[h]
          /\ pc = "rows" => \A k \in Entries : origin[k] < index)
    /\ [][pc = "rows" =>
              /\ index' \in {index, index + 1}
              /\ \/ data' = data
                 \/ /\ Len(data') = Len(data) + 1
                    /\ SubSeq(data', 1, Len(data)) = data
                    /\ origin' = Append(origin, index)
                    /\ index' = index + 1]_vars

\* C23 witness: a scan of a sheet of more than twenty rows returned an entry
\* for every row but one.
C23_Witness ==
    /\ Returned
    /\ df_raw \in LongSheets
    /\ Len(data) = Len(df_raw) - 1
    /\ origin[Len(data)] = Len(df_raw)

\* The index is the column of the last of the header cells of the first
\* rows, or the default when there is none
SweptIndex(headers, idx, default) ==
    /\ LastWins(headers, idx)
    /\ HeaderAt(headers) = {} => idx = default

\* C24: no step of the pass changes the layout, and when the scan ends the
\* layout is the one a sweep of the first 20 rows gives, the last header
\* cell winning; a header in row 20 moves the activity column and the same
\* header in row 21 does not.
C24_SweepOnce ==
    /\ [](ScanEnded =>
            /\ SweptIndex(SemanaHeaders, col_semana_idx, 0)
            /\ SweptIndex(CostoHeaders, col_costo_idx, 9)
            /\ SweptIndex(ActividadHeaders, col_actividad_idx, 2)
            /\ (Returned /\ df_raw = LongSheet(19)) => data[Len(data)].Actividad = "Riego"
            /\ (Returned /\ df_raw = LongSheet(20)) => data[Len(data)].Actividad = "Poda")
    /\ [][pc = "rows" =>
              UNCHANGED <<col_semana_idx, col_costo_idx, col_actividad_idx>>]_vars

\* C24 witness: a scan of a sheet with its one header in row 21 returned,
\* with the default layout, the entry of row 22.
C24_Witness ==
    /\ Returned
    /\ Len(df_raw) = 22
    /\ At(df_raw[21], 3) \in ActividadHeaders
    /\ HeaderAt(ActividadHeaders) = {}
    /\ col_actividad_idx = 2
    /\ origin[Len(data)] = 22
    /\ data[Len(data)].Actividad = "Poda"

NanTexts == {c \in Vocabulary : Lower(Str(c)) = "nan"}

\* What the cells of a row say of its entry
EmitsByCells(r) ==
    /\ IsPlainRow(r)
    /\ At(r, col_costo_idx) \notin BlankTexts \cup NanTexts
    /\ FloatOfCell(At(r, col_costo_idx)) # NoFloat

C26_MonthNeverEmpty ==
    \A k \in Entries :
        /\ SeparatorsAbove(origin[k]) = {} => data[k].Mes = "Desconocido"
        /\ data[k].Mes # ""

(***************************************************************************)
(* Dates, as datetime.date has them: the proleptic Gregorian ordinal, the  *)
(* day of the week and the text of strftime("%Y-%m-%d").                   *)
(***************************************************************************)
Date(y, m, d) == [y |-> y, m |-> m, d |-> d]

IsLeap(y) == y % 4 = 0 /\ (y % 100 # 0 \/ y % 400 = 0)

DaysBeforeYear(y) == (y - 1) * 365 + (y - 1) \div 4 - (y - 1) \div 100 + (y - 1) \div 400

DaysInMonth(y, m) ==
    IF m = 2 THEN (IF IsLeap(y) THEN 29 ELSE 28)
    ELSE IF m \in {4, 6, 9, 11} THEN 30 ELSE 31

RECURSIVE DaysBeforeMonth(_, _)
DaysBeforeMonth(y, m) ==
    IF m = 1 THEN 0 ELSE DaysBeforeMonth(y, m - 1) + DaysInMonth(y, m - 1)

ToOrdinal(f) == DaysBeforeYear(f.y) + DaysBeforeMonth(f.y, f.m) + f.d

\* date.weekday(): Monday is 0 and Sunday 6
Weekday(f) == (ToOrdinal(f) + 6) % 7

\* the decimal text of n on at least w digits
Pad(n, w) ==
    LET t == NatStr(n)
    IN  IF Len(t) >= w THEN t ELSE SubSeq("0000", 1, w - Len(t)) \o t

Strftime(f) == Pad(f.y, 4) \o "-" \o Pad(f.m, 2) \o "-" \o Pad(f.d, 2)

(***************************************************************************)
(* The page of fenología (src/fenologia_arandano.py): evaluations are kept *)
(* in the local storage of the device and sent to the remote table by a    *)
(* later run.  A run of the script with a button pressed is one step.      *)
(***************************************************************************)
MaxPlantas == 2
MaxGuardados == 2

\* lines 69-73
sectores_del_fundo ==
    {"Hilera 1 (21 Emerald)", "Hilera 2 (23 Biloxi/Emerald)", "Hilera 3 (22 Biloxi)"}

\* s.split(sep)[0] and "".join of the rest behind the first sep
BeforeFirst(s, sep) ==
    IF Contains(s, sep)
    THEN SubSeq(s, 1, (CHOOSE i \in 1..Len(s) :
                           Char(s, i) = sep /\ \A j \in 1..(i - 1) : Char(s, j) # sep) - 1)
    ELSE s

AfterFirst(s, sep) ==
    SubSeq(s, (CHOOSE i \in 1..Len(s) :
                   Char(s, i) = sep /\ \A j \in 1..(i - 1) : Char(s, j) # sep) + 1, Len(s))

\* lines 80-83: int(sector.split('(')[1].split(' ')[0]), or 20
num_plantas_actual(sector) ==
    IF ~Contains(sector, "(") THEN 20
    ELSE LET t == BeforeFirst(BeforeFirst(AfterFirst(sector, "("), "("), " ")
         IN  IF t # "" /\ AllDigits(t) THEN DigitsVal(t) ELSE 20

\* The rows of the table that are followed: the first MaxPlantas of them
Plantas == [sector \in sectores_del_fundo |->
               1..Min(num_plantas_actual(sector), MaxPlantas)]

\* The day of the evaluation, chosen in the date input
FechasEvaluacion == {Date(2025, 1, 6), Date(2025, 11, 12)}

Fechas == [f \in FechasEvaluacion |-> Strftime(f)]

\* lines 89-96: a row of the template
Plantilla ==
    [numero_brotes_nuevos |-> 0, diametro_tallo_mm |-> 0, numero_hojas_brote |-> 0,
     coloracion_hojas |-> "Verde oscuro", yemas_axilares |-> FALSE]

\* What the user made of the table: nothing, or the first plant filled in
Ediciones == {"sin cambios", "planta 1"}

df_editada(sector, edicion) ==
    [i \in Plantas[sector] |->
        IF edicion = "planta 1" /\ i = 1
        THEN [Plantilla EXCEPT !.numero_brotes_nuevos = 3,
                               !.coloracion_hojas = "Verde claro"]
        ELSE Plantilla]

\* lines 118-126: the records of one evaluation, in the order of the table
registros_json(sector, fecha, edicion) ==
    [i \in Plantas[sector] |->
        [Planta |-> "Planta " \o NatStr(i),
         numero_brotes_nuevos |-> df_editada(sector, edicion)[i].numero_brotes_nuevos,
         diametro_tallo_mm |-> df_editada(sector, edicion)[i].diametro_tallo_mm,
         numero_hojas_brote |-> df_editada(sector, edicion)[i].numero_hojas_brote,
         coloracion_hojas |-> df_editada(sector, edicion)[i].coloracion_hojas,
         yemas_axilares |-> df_editada(sector, edicion)[i].yemas_axilares,
         Sector |-> sector,
         Fecha |-> Fechas[fecha]]]

\* The evaluations a run can save
Evaluaciones ==
    {registros_json(sector, fecha, edicion) :
        sector \in sectores_del_fundo, fecha \in FechasEvaluacion, edicion \in Ediciones}

\* json.dumps of a list of records: a text, not spelled out, from which
\* json.loads gives the list back (records of str, int, float and bool)
JsonDumps(registros) == [kind |-> "json", list |-> registros]

\* lines 128-129, 140-141: json.loads(item) if item else []
JsonLoads(item) == IF item = None THEN <<>> ELSE item.list

\* a variant that keeps the new records only
GuardarEnDispositivo_Overwrite(registros) ==
    /\ Len(guardados) < MaxGuardados * MaxPlantas
    /\ localStorage' = JsonDumps(registros)
    /\ guardados' = guardados \o registros
    /\ ultimo' = "guardado"
    /\ UNCHANGED <<supabase, Evaluaciones_Fenologicas, scanVars, riegoVars>>

\* lines 117-134: the button "Guardar en Dispositivo"
GuardarEnDispositivo(registros) ==
    /\ Len(guardados) < MaxGuardados * MaxPlantas
    /\ localStorage' = JsonDumps(JsonLoads(localStorage) \o registros)
    /\ guardados' = guardados \o registros
    /\ ultimo' = "guardado"
    /\ UNCHANGED <<supabase, Evaluaciones_Fenologicas, scanVars, riegoVars>>

\* lines 140-141
registros_pendientes == JsonLoads(localStorage)

\* lines 143-153: the button "Sincronizar Ahora con Supabase", the insert
\* succeeding
SincronizarOk ==
    /\ registros_pendientes # <<>>
    /\ supabase
    /\ Evaluaciones_Fenologicas' = Evaluaciones_Fenologicas \o registros_pendientes
    /\ localStorage' = JsonDumps(<<>>)
    /\ ultimo' = "sincronizado"
    /\ UNCHANGED <<supabase, guardados, scanVars, riegoVars>>

\* a variant that empties the list before the insert
SincronizarError_Clears ==
    /\ registros_pendientes # <<>>
    /\ supabase
    /\ localStorage' = JsonDumps(<<>>)
    /\ ultimo' = "error"
    /\ UNCHANGED <<supabase, Evaluaciones_Fenologicas, guardados, scanVars, riegoVars>>

\* lines 148-155: the insert raising
SincronizarError ==
    /\ registros_pendientes # <<>>
    /\ supabase
    /\ ultimo' = "error"
    /\ UNCHANGED <<supabase, localStorage, Evaluaciones_Fenologicas, guardados,
                   scanVars, riegoVars>>

\* lines 146, 156-157: no connection
SincronizarSinConexion ==
    /\ registros_pendientes # <<>>
    /\ ~supabase
    /\ ultimo' = "sin conexion"
    /\ UNCHANGED <<supabase, localStorage, Evaluaciones_Fenologicas, guardados,
                   scanVars, riegoVars>>

\* lines 33-43: a new server process connects again, or fails to; the
\* storage of the device stays
Reconectar ==
    /\ supabase' = ~supabase
    /\ ultimo' = "nada"
    /\ UNCHANGED <<localStorage, Evaluaciones_Fenologicas, guardados, scanVars,
                   riegoVars>>

InitFenologia ==
    /\ ScanIdle
    /\ RiegoIdle
    /\ FenologiaIdle
    /\ supabase \in BOOLEAN

NextFenologia ==
    \/ \E registros \in Evaluaciones : GuardarEnDispositivo(registros)
    \/ SincronizarOk
    \/ SincronizarError
    \/ SincronizarSinConexion
    \/ Reconectar

SpecFenologia == InitFenologia /\ [][NextFenologia]_vars

\* How often a record stands in a list
Count(list, r) == Cardinality({i \in DOMAIN list : list[i] = r})

Records(list) == {list[i] : i \in DOMAIN list}

C28_FailureKeepsPending ==
    /\ [][ultimo' \in {"error", "sin conexion"} =>
              /\ localStorage' = localStorage
              /\ Evaluaciones_Fenologicas' = Evaluaciones_Fenologicas]_vars
    /\ [][(registros_pendientes # <<>> /\ JsonLoads(localStorage') = <<>>) =>
              /\ supabase
              /\ ultimo' = "sincronizado"
              /\ Evaluaciones_Fenologicas'
                     = Evaluaciones_Fenologicas \o registros_pendientes]_vars

\* C28 witness: after a sync that went through, a later sync failed and the
\* records saved in between are still pending.
C28_Witness ==
    /\ ultimo = "error"
    /\ Evaluaciones_Fenologicas # <<>>
    /\ registros_pendientes # <<>>

(***************************************************************************)
(* The page of fertirriego (src/pages/fertirriego_planificador.py).  A run *)
(* of the script goes from its start to the task of the day (paso 1), to   *)
(* the test on the task (lines 236-241) and to the form and its save; it   *)
(* ends at st.stop() ("stop") or at the end of the script ("fin").         *)
(***************************************************************************)
MaxRuns == 2

\* lines 43-52: the keys of TASK_TO_FERTILIZERS_MAP
TASK_TO_FERTILIZERS_MAP ==
    [t \in {"Fertilización Grupo 1", "Fertilización Grupo 2", "Fertilización Grupo 3",
            "Fertilización Grupo 4", "Recuperación / Sin Riego", "Lavado de Sales",
            "Día No Laborable", "Riego (Sin grupo)"} |->
        CASE t = "Fertilización Grupo 1" -> <<"Urea", "Fosfato Monoamónico",
                                              "Sulf. de Potasio">>
          [] t = "Fertilización Grupo 2" -> <<"Sulf. de Magnesio", "Sulf. de Cobre",
                                              "Sulf. de Manganeso", "Sulf. de Zinc">>
          [] t = "Fertilización Grupo 3" -> <<"Boro">>
          [] t = "Fertilización Grupo 4" -> <<"Nitrato de Calcio">>
          [] OTHER -> <<>>]

\* a variant that counts the days from 1, as isoweekday() does
get_task_for_today_Iso(fecha_hoy) ==
    LET dia_semana == Weekday(fecha_hoy) + 1
    IN  CASE dia_semana = 0 -> "Fertilización Grupo 1"
          [] dia_semana = 1 -> "Fertilización Grupo 2"
          [] dia_semana = 2 -> "Fertilización Grupo 3"
          [] dia_semana = 3 -> "Fertilización Grupo 4"
          [] dia_semana = 4 -> "Recuperación / Sin Riego"
          [] dia_semana = 5 -> "Lavado de Sales"
          [] dia_semana = 6 -> "Día No Laborable"
          [] OTHER -> "Riego (Sin grupo)"

\* lines 142-163
get_task_for_today(fecha_hoy) ==
    LET dia_semana == Weekday(fecha_hoy)
    IN  CASE dia_semana = 0 -> "Fertilización Grupo 1"
          [] dia_semana = 1 -> "Fertilización Grupo 2"
          [] dia_semana = 2 -> "Fertilización Grupo 3"
          [] dia_semana = 3 -> "Fertilización Grupo 4"
          [] dia_semana = 4 -> "Recuperación / Sin Riego"
          [] dia_semana = 5 -> "Lavado de Sales"
          [] dia_semana = 6 -> "Día No Laborable"
          [] OTHER -> "Riego (Sin grupo)"

\* The days the page is opened on: the week from Monday 26 February 2024,
\* with its leap day, and the week from Monday 29 December 2025, over the
\* turn of the year
SemanaBisiesta ==
    <<Date(2024, 2, 26), Date(2024, 2, 27), Date(2024, 2, 28), Date(2024, 2, 29),
      Date(2024, 3, 1), Date(2024, 3, 2), Date(2024, 3, 3)>>

SemanaFinDeAno ==
    <<Date(2025, 12, 29), Date(2025, 12, 30), Date(2025, 12, 31), Date(2026, 1, 1),
      Date(2026, 1, 2), Date(2026, 1, 3), Date(2026, 1, 4)>>

FechasRiego ==
    {SemanaBisiesta[i] : i \in 1..7} \cup {SemanaFinDeAno[i] : i \in 1..7}

\* lines 259-265: the applied volumes typed into the number input
\* (min_value 0, 1000 at first), in mL
Volumenes == {0, 1000}

\* lines 266-272: the drained volume, left at its default
VolumenDrenado == 250

\* line 433: (drenado / aplicado) * 100, exact for the volumes followed
testigo_porc_drenaje_final(drenado, aplicado) == (drenado * 100) \div aplicado

\* lines 436-462: the row to insert; the fields of the other widgets are
\* copied from the session in the same way and left out
datos_para_insertar ==
    [fecha |-> Strftime(fecha_actual_peru),
     tarea_del_dia |-> tarea_de_hoy,
     testigo_vol_aplicado_ml |-> testigo_vol_aplicado_ml,
     testigo_vol_drenado_ml |-> testigo_vol_drenado_ml,
     testigo_porc_drenaje |->
         testigo_porc_drenaje_final(testigo_vol_drenado_ml, testigo_vol_aplicado_ml)]

\* The script starts: the widgets hold what the user left in them, and the
\* form can have been submitted only if the last run showed it
Iniciar ==
    /\ paso \in {"sin abrir", "stop", "fin"}
    /\ runs < MaxRuns
    /\ runs' = runs + 1
    /\ inserts' = 0
    /\ fecha_actual_peru' \in FechasRiego
    /\ recipes_completas' \in BOOLEAN
    /\ submitted' \in (IF paso = "fin" THEN BOOLEAN ELSE {FALSE})
    /\ testigo_vol_aplicado_ml' \in (IF paso = "fin" THEN Volumenes ELSE {1000})
    /\ testigo_vol_drenado_ml' = VolumenDrenado
    /\ paso' = "paso1"
    /\ UNCHANGED <<TZ_PERU, tarea_de_hoy, Jornada_Riego, supabase, scanVars,
                   fenologiaVars>>

\* What a step of the run leaves as it is, but for paso and what it names
RunUnchanged ==
    UNCHANGED <<TZ_PERU, recipes_completas, fecha_actual_peru, testigo_vol_aplicado_ml,
                testigo_vol_drenado_ml, submitted, runs, supabase, scanVars,
                fenologiaVars>>

\* lines 209-213: no time zone
Paso1SinZona ==
    /\ paso = "paso1"
    /\ ~TZ_PERU
    /\ tarea_de_hoy' = "Indeterminada"
    /\ paso' = "gate"
    /\ RunUnchanged /\ UNCHANGED <<Jornada_Riego, inserts>>

\* lines 183-185: no recipes, st.stop()
Paso1SinRecetas ==
    /\ paso = "paso1"
    /\ TZ_PERU
    /\ ~recipes_completas
    /\ paso' = "stop"
    /\ RunUnchanged /\ UNCHANGED <<tarea_de_hoy, Jornada_Riego, inserts>>

\* lines 188-189
Paso1Tarea ==
    /\ paso = "paso1"
    /\ TZ_PERU
    /\ recipes_completas
    /\ tarea_de_hoy' = get_task_for_today(fecha_actual_peru)
    /\ paso' = "gate"
    /\ RunUnchanged /\ UNCHANGED <<Jornada_Riego, inserts>>

\* lines 204-208: an exception in the try
Paso1Error ==
    /\ paso = "paso1"
    /\ TZ_PERU
    /\ tarea_de_hoy' = "Error en fecha"
    /\ paso' = "gate"
    /\ RunUnchanged /\ UNCHANGED <<Jornada_Riego, inserts>>

\* lines 236-238
GateError ==
    /\ paso = "gate"
    /\ Contains(tarea_de_hoy, "Error")
    /\ paso' = "stop"
    /\ RunUnchanged /\ UNCHANGED <<tarea_de_hoy, Jornada_Riego, inserts>>

\* lines 239-241
GateNoLaborable ==
    /\ paso = "gate"
    /\ ~Contains(tarea_de_hoy, "Error")
    /\ tarea_de_hoy = "Día No Laborable"
    /\ paso' = "stop"
    /\ RunUnchanged /\ UNCHANGED <<tarea_de_hoy, Jornada_Riego, inserts>>

\* line 242: the rest of the page is shown
GatePasa ==
    /\ paso = "gate"
    /\ ~Contains(tarea_de_hoy, "Error")
    /\ tarea_de_hoy # "Día No Laborable"
    /\ paso' = "form"
    /\ RunUnchanged /\ UNCHANGED <<tarea_de_hoy, Jornada_Riego, inserts>>

\* line 425: the form was not submitted
SinEnviar ==
    /\ paso = "form"
    /\ ~submitted
    /\ paso' = "fin"
    /\ RunUnchanged /\ UNCHANGED <<tarea_de_hoy, Jornada_Riego, inserts>>

\* lines 426-427
GuardarSinConexion ==
    /\ paso = "form"
    /\ submitted
    /\ ~supabase
    /\ paso' = "fin"
    /\ RunUnchanged /\ UNCHANGED <<tarea_de_hoy, Jornada_Riego, inserts>>

\* lines 428-429
GuardarVolumenCero ==
    /\ paso = "form"
    /\ submitted
    /\ supabase
    /\ testigo_vol_aplicado_ml <= 0
    /\ paso' = "fin"
    /\ RunUnchanged /\ UNCHANGED <<tarea_de_hoy, Jornada_Riego, inserts>>

\* a variant that does not look at the volume
GuardarJornada_SinVolumen ==
    /\ paso = "form"
    /\ submitted
    /\ supabase
    /\ Jornada_Riego' = Append(Jornada_Riego,
                               [fecha |-> Strftime(fecha_actual_peru),
                                tarea_del_dia |-> tarea_de_hoy,
                                testigo_vol_aplicado_ml |-> testigo_vol_aplicado_ml,
                                testigo_vol_drenado_ml |-> testigo_vol_drenado_ml,
                                testigo_porc_drenaje |-> 0])
    /\ inserts' = inserts + 1
    /\ paso' = "fin"
    /\ RunUnchanged /\ UNCHANGED tarea_de_hoy

\* lines 430-471: the row is inserted
GuardarJornada ==
    /\ paso = "form"
    /\ submitted
    /\ supabase
    /\ testigo_vol_aplicado_ml > 0
    /\ Jornada_Riego' = Append(Jornada_Riego, datos_para_insertar)
    /\ inserts' = inserts + 1
    /\ paso' = "fin"
    /\ RunUnchanged /\ UNCHANGED tarea_de_hoy

\* lines 473-475: an exception in the try, before the insert or in it
GuardarJornadaError ==
    /\ paso = "form"
    /\ submitted
    /\ supabase
    /\ testigo_vol_aplicado_ml > 0
    /\ inserts' \in {inserts, inserts + 1}
    /\ paso' = "fin"
    /\ RunUnchanged /\ UNCHANGED <<tarea_de_hoy, Jornada_Riego>>

InitRiego ==
    /\ ScanIdle
    /\ FenologiaIdle
    /\ supabase \in BOOLEAN
    /\ paso = "sin abrir"
    /\ TZ_PERU \in BOOLEAN
    /\ recipes_completas = TRUE
    /\ fecha_actual_peru = NoDate
    /\ tarea_de_hoy = ""
    /\ testigo_vol_aplicado_ml = 0
    /\ testigo_vol_drenado_ml = 0
    /\ submitted = FALSE
    /\ Jornada_Riego = <<>>
    /\ inserts = 0
    /\ runs = 0

NextRiego ==
    \/ Iniciar
    \/ Paso1SinZona
    \/ Paso1SinRecetas
    \/ Paso1Tarea
    \/ Paso1Error
    \/ GateError
    \/ GateNoLaborable
    \/ GatePasa
    \/ SinEnviar
    \/ GuardarSinConexion
    \/ GuardarVolumenCero
    \/ GuardarJornada
    \/ GuardarJornadaError

SpecRiego == InitRiego /\ [][NextRiego]_vars

\* A step that sends a row to the table Jornada_Riego, or tries to
InsertAttempted ==
    \/ Jornada_Riego' # Jornada_Riego
    \/ inserts' > inserts

\* C29: a row goes to Jornada_Riego only in a run whose form was submitted,
\* with a connection to the store, an applied volume above zero and a task
\* of the day that is neither "Día No Laborable" nor one that carries the
\* word "Error"; in every other case no insert is attempted, and a run makes
\* at most one insert, of one row.
C29_SaveGating ==
    /\ [][InsertAttempted =>
            /\ submitted
            /\ supabase
            /\ testigo_vol_aplicado_ml > 0
            /\ tarea_de_hoy # "Día No Laborable"
            /\ ~Contains(tarea_de_hoy, "Error")
            /\ inserts' = 1
            /\ Jornada_Riego' \in {Jornada_Riego, Append(Jornada_Riego, datos_para_insertar)}
         ]_vars
    /\ [](inserts <= 1)

C29_Witness ==
    /\ paso = "fin"
    /\ submitted
    /\ inserts = 1
    /\ Len(Jornada_Riego) = 1
    /\ Jornada_Riego[1].tarea_del_dia = "Lavado de Sales"
    /\ Jornada_Riego[1].fecha = "2024-03-02"

\* The task of each day of a week, from Monday to Sunday
TareasDeLaSemana ==
    <<"Fertilización Grupo 1", "Fertilización Grupo 2", "Fertilización Grupo 3",
      "Fertilización Grupo 4", "Recuperación / Sin Riego", "Lavado de Sales",
      "Día No Laborable">>

\* The task of the day was computed from the date of this run
TareaCalculada ==
    /\ paso = "gate"
    /\ TZ_PERU
    /\ tarea_de_hoy # "Error en fecha"

\* C30: get_task_for_today gives a task for every date: Monday to Thursday
\* give "Fertilización Grupo 1" to "Fertilización Grupo 4", Friday gives
\* "Recuperación / Sin Riego", Saturday "Lavado de Sales", Sunday "Día No
\* Laborable"; no date gives the fallback "Riego (Sin grupo)", and every task
\* given is a key of TASK_TO_FERTILIZERS_MAP.
C30_TaskOfWeekday ==
    /\ tarea_de_hoy # "Riego (Sin grupo)"
    /\ TareaCalculada =>
         /\ \A i \in 1..7 :
               fecha_actual_peru \in {SemanaBisiesta[i], SemanaFinDeAno[i]} =>
                   tarea_de_hoy = TareasDeLaSemana[i]
         /\ tarea_de_hoy \in DOMAIN TASK_TO_FERTILIZERS_MAP

C30_Witness ==
    /\ TareaCalculada
    /\ fecha_actual_peru = Date(2024, 2, 29)
    /\ tarea_de_hoy = "Fertilización Grupo 4"
====
